---- MODULE Spec2Model ----
(***************************************************************************)
(* Model of qlib/backtest/backtest.py: the generator collect_data_loop,    *)
(* its unattended driver backtest_loop, an external driver that may inject *)
(* replacement decisions, and the strategy / executor collaborators the    *)
(* loop calls.  One run of the loop is one behaviour.                      *)
(***************************************************************************)
EXTENDS Integers, Sequences, FiniteSets, TLC

\* ------------------------------------------------------------------ bounds
\* Largest number of bars of the outermost calendar inside [start, end].
MaxLen == 2
\* Largest number of intermediate decisions the executor hierarchy yields
\* in one run, over all its collect_data sequences.
MaxYield == 2
\* Largest number of executor nodes get_all_executors returns.
MaxNodes == 2

VARIABLES
    pc,              \* position of control in collect_data_loop / backtest_loop
    raised,          \* "none", or the error that reached the caller
    trace,           \* the strategy / executor calls made so far, in order
    start_time, end_time, driver,
    scenario,        \* "any" executor behaviour, or the "two_level" hierarchy
    return_value,    \* the capture slot: [given |-> BOOLEAN, d |-> dict]
    bt_result,       \* what backtest_loop returned
    exec_is_reset, trade_len, trade_step, yields_in_step,
    strat_infra,     \* the level infrastructure the strategy was reset with
    execute_result, trade_decision, bar_total, bar_n,
    execYielded,     \* values the executor's collect_data sequences yielded
    loopYielded,     \* values collect_data_loop yielded to its driver
    lastSent,        \* value the driver supplied at its latest resume
    lastRecv,        \* value the collect_data sequence received at that resume
    resumes,         \* number of times the driver has run the generator
    all_executors, portfolio_dict, indicator_dict,
    warnings         \* warnings the run has issued to its caller

ctl == <<pc, raised, trace>>
inputs == <<start_time, end_time, driver, scenario>>
out == <<return_value, bt_result>>
execState == <<exec_is_reset, trade_len, trade_step, yields_in_step>>
stratState == <<strat_infra>>
locals == <<execute_result, trade_decision, bar_total, bar_n>>
chan == <<execYielded, loopYielded, lastSent, lastRecv, resumes>>
agg == <<all_executors, portfolio_dict, indicator_dict, warnings>>
vars == <<ctl, inputs, out, execState, stratState, locals, chan, agg>>

\* ------------------------------------------------------------------ values
\* Every value that crosses a call is a tagged record, so that any two can
\* be compared.
Val(kind, id) == [kind |-> kind, id |-> id]
None == Val("None", 0)
Bool(b) == Val("bool", IF b THEN 1 ELSE 0)
Raised == Val("raised", 0)
\* The decision the strategy produces at its k-th request.
Decision(k) == Val("decision", k)
\* The j-th intermediate decision an executor level emits during step k.
SubDecision(k, j) == Val("sub", k * 10 + j)
\* The replacement decision an external driver may inject.
Injected == Val("inject", 1)
\* The ExecutionResult of step k (a step may also return None).
Result(k) == Val("result", k)
\* The handle get_level_infra returns: the calendar exists only after reset.
LevelInfra(isReset) == Val("infra", IF isReset THEN 1 ELSE 0)
NodeRef(i) == Val("node", i)

Ev(op, arg, ret) == [op |-> op, arg |-> arg, ret |-> ret]

\* Python dict helpers.
EmptyDict == [k \in {} |-> None]
\* Faulty variant: an entry already present under the key is kept.
PutKeepFirst(d, k, v) == [x \in (DOMAIN d) \cup {k} |-> IF x \in DOMAIN d THEN d[x] ELSE v]
\* d[k] = v
Put(d, k, v) == [x \in (DOMAIN d) \cup {k} |-> IF x = k THEN v ELSE d[x]]
\* Faulty variant: the slot's contents are replaced, not updated.
UpdateReplace(d, e) == e
\* d.update(e)
Update(d, e) == [x \in (DOMAIN d) \cup (DOMAIN e) |-> IF x \in DOMAIN e THEN e[x] ELSE d[x]]
Get(d, k) == IF k \in DOMAIN d THEN [some |-> TRUE, v |-> d[k]] ELSE [some |-> FALSE, v |-> EmptyDict]

\* The range handed to the run: end before, at and after start.
StartTimes == {1}
EndTimes == {0, 1, 2}
Drivers == {"backtest_loop", "external"}
\* What a caller's slot may already hold.
UserDict == Put(EmptyDict, "user_entry", EmptyDict)
NoSlot == [given |-> FALSE, d |-> EmptyDict]
Slot(d) == [given |-> TRUE, d |-> d]

Labels == {"1day", "30min"}
Nodes == [time_per_step : Labels, port_metr_enabled : BOOLEAN]
Trees == UNION {[1..n -> Nodes] : n \in 1..MaxNodes}

\* The two-level hierarchy: an outer "1day" executor over an inner "30min"
\* one, a range of ScenarioDays outer bars, ScenarioInnerSteps inner steps
\* (one exposed sub-decision each) per outer bar.
ScenarioDays == 2
ScenarioInnerSteps == 2
ScenarioTrees == {t \in [1..2 -> Nodes] : t[1].time_per_step = "1day" /\ t[2].time_per_step = "30min"}

\* The node lists get_all_executors may return, and the calendar lengths
\* the reset may establish (a range of one instant holds at most one bar).
TreeChoices == IF scenario = "two_level" THEN ScenarioTrees ELSE Trees
LenChoices ==
    IF scenario = "two_level" THEN {ScenarioDays}
    ELSE IF start_time = end_time THEN 0..1 ELSE 0..MaxLen

InitFor(sc) ==
    /\ scenario = sc
    /\ warnings = <<>>
    /\ pc = "created"
    /\ raised = "none"
    /\ trace = <<>>
    /\ start_time \in StartTimes
    /\ end_time \in EndTimes
    /\ driver \in Drivers
    /\ return_value \in IF driver = "backtest_loop" THEN {Slot(EmptyDict)} ELSE {NoSlot, Slot(UserDict)}
    /\ bt_result = [set |-> FALSE, portfolio_dict |-> Get(EmptyDict, "x"), indicator_dict |-> Get(EmptyDict, "x")]
    /\ exec_is_reset = FALSE
    /\ trade_len = 0
    /\ trade_step = 0
    /\ yields_in_step = 0
    /\ strat_infra = None
    /\ execute_result = None
    /\ trade_decision = None
    /\ bar_total = 0
    /\ bar_n = 0
    /\ execYielded = <<>>
    /\ loopYielded = <<>>
    /\ lastSent = None
    /\ lastRecv = None
    /\ resumes = 0
    /\ all_executors = <<>>
    /\ portfolio_dict = EmptyDict
    /\ indicator_dict = EmptyDict

Init == InitFor("any")

\* Faulty variant: the error is caught and the loop is left as if finished.
AbortSwallowed(op, arg, err) ==
    /\ pc' = "post_upper"
    /\ trace' = Append(trace, Ev(op, arg, Raised))
    /\ UNCHANGED <<raised, inputs, out, execState, stratState, locals, chan, agg>>

\* A collaborator call raises: the error leaves the generator at once.
Abort(op, arg, err) ==
    /\ pc' = "aborted"
    /\ raised' = err
    /\ trace' = Append(trace, Ev(op, arg, Raised))
    /\ UNCHANGED <<inputs, out, execState, stratState, locals, chan, agg>>

\* ------------------------------------------------------- collect_data_loop
\* Faulty variant: the executor reset is left out.
EntryPcSkipReset == "strategy_reset"
EntryPc == "executor_reset"

\* The driver runs the generator for the first time (next()).
Start ==
    /\ pc = "created"
    /\ pc' = EntryPc
    /\ resumes' = resumes + 1
    /\ UNCHANGED <<raised, trace, inputs, out, execState, stratState, locals,
                   execYielded, loopYielded, lastSent, lastRecv, agg>>

AfterExecutorReset == "strategy_reset"
\* A range whose end precedes its start is refused by the reset.
RangeRejected == end_time < start_time

\* trade_executor.reset(start_time=start_time, end_time=end_time)
ExecutorReset ==
    /\ pc = "executor_reset"
    /\ \/ /\ RangeRejected
          /\ Abort("executor.reset", None, "ConfigurationError")
       \/ /\ ~RangeRejected
          /\ Abort("executor.reset", None, "Error")
       \/ /\ ~RangeRejected
          /\ \E n \in LenChoices :
                /\ exec_is_reset' = TRUE
                /\ trade_len' = n
                /\ trade_step' = 0
                /\ UNCHANGED yields_in_step
          /\ pc' = AfterExecutorReset
          /\ trace' = Append(trace, Ev("executor.reset", None, None))
          /\ UNCHANGED <<raised, inputs, out, stratState, locals, chan, agg>>


\* What the executor's calendar and infrastructure answer.
GetLevelInfra == LevelInfra(exec_is_reset)
GetTradeLen == trade_len
ExecutorFinished == trade_step >= trade_len

\* The argument of trade_strategy.reset: the handle of the executor as it is
\* at this point of the code.
LevelInfraArg == GetLevelInfra

\* trade_strategy.reset(level_infra=trade_executor.get_level_infra())
StrategyReset ==
    /\ pc = "strategy_reset"
    /\ \/ /\ pc' = "aborted"
          /\ raised' = "Error"
          /\ trace' = Append(Append(trace, Ev("executor.get_level_infra", None, LevelInfraArg)),
                             Ev("strategy.reset", LevelInfraArg, Raised))
          /\ UNCHANGED <<inputs, out, execState, stratState, locals, chan, agg>>
       \/ /\ strat_infra' = LevelInfraArg
          /\ pc' = "open_bar"
          /\ trace' = Append(Append(trace, Ev("executor.get_level_infra", None, LevelInfraArg)),
                             Ev("strategy.reset", LevelInfraArg, None))
          /\ UNCHANGED <<raised, inputs, out, execState, locals, chan, agg>>

\* with tqdm(total=trade_executor.trade_calendar.get_trade_len(), ...);
\* _execute_result = None
OpenBar ==
    /\ pc = "open_bar"
    /\ bar_total' = GetTradeLen
    /\ bar_n' = 0
    /\ execute_result' = None
    /\ pc' = "loop_test"
    /\ trace' = Append(trace, Ev("trade_calendar.get_trade_len", None, Val("int", GetTradeLen)))
    /\ UNCHANGED <<raised, inputs, out, execState, stratState, trade_decision, chan, agg>>

\* Faulty variant: the loop exit bypasses the post-level hook.
LoopBranchNoHook(fin) == IF fin THEN "capture_test" ELSE "generate"
\* while not trade_executor.finished(): ... else fall through to line 115
LoopBranch(fin) == IF fin THEN "post_upper" ELSE "generate"

LoopTest ==
    /\ pc = "loop_test"
    /\ \/ Abort("executor.finished", None, "Error")
       \/ /\ pc' = LoopBranch(ExecutorFinished)
          /\ trace' = Append(trace, Ev("executor.finished", None, Bool(ExecutorFinished)))
          /\ UNCHANGED <<raised, inputs, out, execState, stratState, locals, chan, agg>>

GETALL == "executor.get_all_executors"

\* Number of calls of `op` made so far.
Count(op) == Cardinality({i \in 1..Len(trace) : trace[i].op = op})

\* Faulty variant: the previous result is not handed to the strategy.
GenerateArgNone == None
GenerateArg == execute_result
\* Faulty variant: the decision is never submitted to the executor.
AfterGenerateSkip == "post_exe_step"
AfterGenerate == "collect_data"

\* _trade_decision = trade_strategy.generate_trade_decision(_execute_result)
GenerateTradeDecision ==
    /\ pc = "generate"
    /\ \/ Abort("strategy.generate_trade_decision", GenerateArg, "Error")
       \/ LET d == Decision(Count("strategy.generate_trade_decision") + 1) IN
          /\ trade_decision' = d
          /\ pc' = AfterGenerate
          /\ trace' = Append(trace, Ev("strategy.generate_trade_decision", GenerateArg, d))
          /\ UNCHANGED <<raised, inputs, out, execState, stratState,
                         execute_result, bar_total, bar_n, chan, agg>>

CollectArg == trade_decision

\* trade_executor.collect_data(_trade_decision, level=0): the sequence the
\* loop delegates to is created and entered.
CollectData ==
    /\ pc = "collect_data"
    /\ yields_in_step' = 0
    /\ pc' = "delegating"
    /\ trace' = Append(trace, Ev("executor.collect_data", CollectArg, Val("level", 0)))
    /\ UNCHANGED <<raised, inputs, out, exec_is_reset, trade_len, trade_step,
                   stratState, locals, chan, agg>>

\* Faulty variant: the loop yields a value of its own instead of the delegate's.
YieldFromOutNone(v) == None
\* Faulty variant: a plain `yield`, whose value is what the driver sent.
YieldFromResultSent(r) == lastSent
\* `yield from`: a value the delegate yields is yielded by the loop, a value
\* sent to the loop is sent to the delegate, and the delegate's return value
\* is the value of the expression.
YieldFromOut(v) == v
YieldFromIn(v) == v
YieldFromResult(r) == r

\* Faulty variant: the loop consumes the delegate's values itself and runs on.
SuspendPcRunOn == "delegating"
\* At a value the delegate yields, control goes to the loop's driver.
SuspendPc == "suspended"

\* The executor hierarchy emits an intermediate decision: the loop suspends.
ExecutorYield ==
    /\ pc = "delegating"
    /\ IF scenario = "two_level" THEN yields_in_step < ScenarioInnerSteps
                                 ELSE Len(execYielded) < MaxYield
    /\ LET v == SubDecision(Count("executor.collect_data"), yields_in_step + 1) IN
          /\ execYielded' = Append(execYielded, v)
          /\ loopYielded' = Append(loopYielded, YieldFromOut(v))
    /\ yields_in_step' = yields_in_step + 1
    /\ pc' = SuspendPc
    /\ UNCHANGED <<raised, trace, inputs, out, exec_is_reset, trade_len, trade_step,
                   stratState, locals, lastSent, lastRecv, resumes, agg>>

\* The driver resumes the suspended loop: backtest_loop's for statement with
\* nothing, an external driver with nothing or with a replacement decision.
Resume ==
    /\ pc = "suspended"
    /\ \E v \in {None, Injected} :
          /\ driver = "backtest_loop" => v = None
          /\ lastSent' = v
          /\ lastRecv' = YieldFromIn(v)
    /\ resumes' = resumes + 1
    /\ pc' = "delegating"
    /\ UNCHANGED <<raised, trace, inputs, out, execState, stratState, locals,
                   execYielded, loopYielded, agg>>

\* The collect_data sequence completes: the calendar has advanced by one bar
\* and the step's ExecutionResult (possibly None) is bound to _execute_result.
ExecutorReturn ==
    /\ pc = "delegating"
    /\ \/ Abort("executor.collect_data.return", None, "Error")
       \/ \E r \in {None, Result(Count("executor.collect_data"))} :
             /\ scenario = "two_level" => yields_in_step = ScenarioInnerSteps
             /\ trade_step' = trade_step + 1
             /\ execute_result' = YieldFromResult(r)
             /\ pc' = "post_exe_step"
             /\ trace' = Append(trace, Ev("executor.collect_data.return", None, r))
             /\ UNCHANGED <<raised, inputs, out, exec_is_reset, trade_len, yields_in_step,
                            stratState, trade_decision, bar_total, bar_n, chan, agg>>

\* Faulty variant: the next decision is requested without asking finished().
AfterPostExeStepNoTest == "generate"
\* Faulty variant: `if` for `while`: one step, then the loop is left.
AfterPostExeStepOnce == "post_upper"
PostExeArg == execute_result
AfterPostExeStep == "loop_test"

\* trade_strategy.post_exe_step(_execute_result); bar.update(1)
PostExeStep ==
    /\ pc = "post_exe_step"
    /\ \/ Abort("strategy.post_exe_step", PostExeArg, "Error")
       \/ /\ bar_n' = bar_n + 1
          /\ pc' = AfterPostExeStep
          /\ trace' = Append(trace, Ev("strategy.post_exe_step", PostExeArg, None))
          /\ UNCHANGED <<raised, inputs, out, execState, stratState,
                         execute_result, trade_decision, bar_total, chan, agg>>

\* trade_strategy.post_upper_level_exe_step()
PostUpperLevelExeStep ==
    /\ pc = "post_upper"
    /\ \/ Abort("strategy.post_upper_level_exe_step", None, "Error")
       \/ /\ pc' = "capture_test"
          /\ trace' = Append(trace, Ev("strategy.post_upper_level_exe_step", None, None))
          /\ UNCHANGED <<raised, inputs, out, execState, stratState, locals, chan, agg>>


\* ------------------------------------------------------ metrics aggregation
\* Faulty variant: the aggregation is not guarded by the slot.
CaptureRequestedAlways == TRUE
\* if return_value is not None:
CaptureRequested == return_value.given

\* The generator returns without aggregating: no capture slot was supplied.
SkipAggregation ==
    /\ pc = "capture_test"
    /\ ~CaptureRequested
    /\ pc' = "done"
    /\ UNCHANGED <<raised, trace, inputs, out, execState, stratState, locals, chan, agg>>

\* Freq.parse: a granularity label as its (count, unit) pair.
FreqParse(label) ==
    CASE label = "1day" -> [count |-> 1, unit |-> "day"]
      [] label = "30min" -> [count |-> 30, unit |-> "min"]

\* Faulty variant: the count is left out of the key.
FormatKeyUnitOnly(p) == p.unit
\* "{}{}".format(count, unit)
FormatKey(p) ==
    CASE p.count = 1 /\ p.unit = "day" -> "1day"
      [] p.count = 30 /\ p.unit = "min" -> "30min"

\* key = "{}{}".format(*Freq.parse(executor.time_per_step))
KeyOf(executor) == FormatKey(FreqParse(executor.time_per_step))

\* Faulty variant: portfolio metrics are stored whether enabled or not.
PortMetrIncludedAlways(executor) == TRUE
\* Faulty variant: the test is inverted.
PortMetrIncludedInverted(executor) == ~executor.port_metr_enabled
\* if executor.trade_account.is_port_metr_enabled():
PortMetrIncluded(executor) == executor.port_metr_enabled

PortfolioEntry(i) == [node |-> i, what |-> "portfolio_metrics"]
IndicatorEntry(i) == [node |-> i, what |-> "trade_indicator"]

\* The calls one pass of the for loop makes on node i of the list t.
NodeCalls(t, i) ==
    <<Ev("executor.time_per_step", NodeRef(i), None),
      Ev("trade_account.is_port_metr_enabled", NodeRef(i), Bool(t[i].port_metr_enabled))>>
    \o (IF PortMetrIncluded(t[i])
        THEN <<Ev("trade_account.get_portfolio_metrics", NodeRef(i), None)>>
        ELSE <<>>)
    \o <<Ev("trade_account.get_trade_indicator", NodeRef(i), None),
         Ev("trade_account.get_trade_indicator", NodeRef(i), None)>>

\* `for executor in all_executors`, after its first n passes: the calls made
\* and the two maps built.
RECURSIVE CallsUpTo(_, _)
CallsUpTo(t, n) == IF n = 0 THEN <<>> ELSE CallsUpTo(t, n - 1) \o NodeCalls(t, n)

RECURSIVE PortfolioUpTo(_, _)
PortfolioUpTo(t, n) ==
    IF n = 0 THEN EmptyDict
    ELSE LET before == PortfolioUpTo(t, n - 1) IN
         IF PortMetrIncluded(t[n]) THEN Put(before, KeyOf(t[n]), PortfolioEntry(n)) ELSE before

RECURSIVE IndicatorUpTo(_, _)
IndicatorUpTo(t, n) ==
    IF n = 0 THEN EmptyDict
    ELSE Put(IndicatorUpTo(t, n - 1), KeyOf(t[n]), IndicatorEntry(n))

\* Faulty variant: every key that overwrites an entry is reported.
CollisionWarningsEmitted(t) ==
    SelectSeq([i \in 1..Len(t) |-> KeyOf(t[i])],
              LAMBDA k : Cardinality({i \in 1..Len(t) : KeyOf(t[i]) = k}) > 1)
\* The warnings the for loop issues over the list t: the loop body holds no
\* call that reports anything, whether or not a key is already present.
CollisionWarnings(t) == <<>>

\* all_executors = trade_executor.get_all_executors(), and the for loop over
\* them, which runs without suspension; a collaborator may raise in
\* get_all_executors or while node k is read, after k - 1 complete passes.
Aggregate ==
    /\ pc = "capture_test"
    /\ CaptureRequested
    /\ \/ Abort(GETALL, None, "Error")
       \/ \E t \in TreeChoices : \E k \in 1..Len(t) :
             /\ pc' = "aborted"
             /\ raised' = "Error"
             /\ trace' = Append(Append(trace, Ev(GETALL, None, None)) \o CallsUpTo(t, k - 1),
                                Ev("executor.time_per_step", NodeRef(k), Raised))
             /\ UNCHANGED <<inputs, out, execState, stratState, locals, chan, agg>>
       \/ \E t \in TreeChoices :
             /\ all_executors' = t
             /\ warnings' = warnings \o CollisionWarnings(t)
             /\ portfolio_dict' = PortfolioUpTo(t, Len(t))
             /\ indicator_dict' = IndicatorUpTo(t, Len(t))
             /\ pc' = "store"
             /\ trace' = Append(trace, Ev(GETALL, None, None)) \o CallsUpTo(t, Len(t))
             /\ UNCHANGED <<raised, inputs, out, execState, stratState, locals, chan>>

\* return_value.update({"portfolio_dict": portfolio_dict, "indicator_dict": indicator_dict})
StoreResult ==
    /\ pc = "store"
    /\ return_value' = [return_value EXCEPT !.d =
           Update(@, Put(Put(EmptyDict, "portfolio_dict", portfolio_dict),
                         "indicator_dict", indicator_dict))]
    /\ pc' = "done"
    /\ UNCHANGED <<raised, trace, inputs, bt_result, execState, stratState, locals, chan, agg>>

\* ------------------------------------------------------------ backtest_loop
\* Faulty variant: the two entries are read under each other's key.
BtResultSwapped(d) ==
    [set |-> TRUE,
     portfolio_dict |-> Get(d, "indicator_dict"),
     indicator_dict |-> Get(d, "portfolio_dict")]
\* portfolio_dict = return_value.get("portfolio_dict"); indicator_dict = ...;
\* return portfolio_dict, indicator_dict
BtResult(d) ==
    [set |-> TRUE,
     portfolio_dict |-> Get(d, "portfolio_dict"),
     indicator_dict |-> Get(d, "indicator_dict")]

\* The for loop of backtest_loop is exhausted: the pair is read and returned.
BacktestLoopReturn ==
    /\ pc = "done"
    /\ driver = "backtest_loop"
    /\ bt_result' = BtResult(return_value.d)
    /\ pc' = "returned"
    /\ UNCHANGED <<raised, trace, inputs, return_value, execState, stratState, locals, chan, agg>>

Next ==
    \/ Start
    \/ ExecutorReset
    \/ StrategyReset
    \/ OpenBar
    \/ LoopTest
    \/ GenerateTradeDecision
    \/ CollectData
    \/ ExecutorYield
    \/ Resume
    \/ ExecutorReturn
    \/ PostExeStep
    \/ PostUpperLevelExeStep
    \/ SkipAggregation
    \/ Aggregate
    \/ StoreResult
    \/ BacktestLoopReturn

Spec == Init /\ [][Next]_vars

\* The driver resumes the generator whenever it is suspended, and every
\* collaborator call returns or raises: some step is always eventually taken.
FairSpec == Init /\ [][Next]_vars /\ WF_vars(Next)

\* Runs of the two-level hierarchy over its two-day range.
ScenarioInit == InitFor("two_level") /\ start_time < end_time
ScenarioSpec == ScenarioInit /\ [][Next]_vars


\* ------------------------------------------------------------------ claims
GEN == "strategy.generate_trade_decision"
COLLECT == "executor.collect_data"
RET == "executor.collect_data.return"
POST == "strategy.post_exe_step"
POSTUPPER == "strategy.post_upper_level_exe_step"
FIN == "executor.finished"
AggOps == {GETALL, "executor.time_per_step", "trade_account.is_port_metr_enabled",
           "trade_account.get_portfolio_metrics", "trade_account.get_trade_indicator"}

\* The calls of the trace whose operation is in S, in order.
Restrict(S) == SelectSeq(trace, LAMBDA e : e.op \in S)
FinishedTrue == Ev(FIN, None, Bool(TRUE))
FinishedFalse == Ev(FIN, None, Bool(FALSE))
\* The while loop has been left through its condition.
LoopExited == pc \in {"capture_test", "store", "done", "returned"}
Completed == pc \in {"done", "returned"}

\* C1: the decision requests, top-level submissions and result deliveries of
\* a run come in rounds of exactly generate_trade_decision, then
\* collect_data(that decision, level=0), then post_exe_step; so requests and
\* deliveries strictly alternate, starting with a request.
C1_Alternation ==
    LET s == Restrict({GEN, COLLECT, POST}) IN
    \A i \in 1..Len(s) :
        /\ s[i].op = (CASE i % 3 = 1 -> GEN [] i % 3 = 2 -> COLLECT [] OTHER -> POST)
        /\ s[i].op = COLLECT => s[i].arg = s[i - 1].ret /\ s[i].ret = Val("level", 0)

C1_Witness ==
    /\ pc = "done"
    /\ Count(POST) = 2
    /\ Len(loopYielded) >= 1

\* C2: every decision request directly follows a finished() that answered
\* false, and after a finished() that answered true no decision request,
\* submission, step result or result delivery happens.
C2_FinishedGuard ==
    \A i \in 1..Len(trace) :
        /\ trace[i].op = GEN => i > 1 /\ trace[i - 1] = FinishedFalse
        /\ trace[i] = FinishedTrue =>
              \A j \in (i + 1)..Len(trace) : trace[j].op \notin {GEN, COLLECT, RET, POST}

C2_Witness ==
    /\ pc = "done"
    /\ Count(GEN) = 2
    /\ Count(FIN) = 3

\* C3: the first call of a run is executor.reset; strategy.reset comes after
\* it and receives the handle of the reset executor; each reset happens once;
\* no finished, decision, submission or hook call precedes the two resets.
C3_ResetOrder ==
    /\ Len(trace) >= 1 => trace[1].op = "executor.reset"
    /\ pc \notin {"created", "executor_reset", "strategy_reset", "aborted"} =>
          /\ Len(trace) >= 3
          /\ trace[1] = Ev("executor.reset", None, None)
          /\ trace[3] = Ev("strategy.reset", LevelInfra(TRUE), None)
    /\ \A i \in 1..Len(trace) :
          /\ trace[i].op = "executor.reset" => i = 1
          /\ trace[i].op = "strategy.reset" =>
                /\ i = 3
                /\ trace[1] = Ev("executor.reset", None, None)
                /\ trace[2] = Ev("executor.get_level_infra", None, LevelInfra(TRUE))
                /\ trace[i].arg = LevelInfra(TRUE)
          /\ trace[i].op \in {FIN, GEN, COLLECT, POST, POSTUPPER} =>
                /\ i > 3
                /\ trace[1] = Ev("executor.reset", None, None)
                /\ trace[3] = Ev("strategy.reset", LevelInfra(TRUE), None)

C3_Witness ==
    /\ pc = "done"
    /\ strat_infra = LevelInfra(TRUE)
    /\ Count(POST) >= 1

\* C4: post_upper_level_exe_step is invoked at most once, directly after a
\* finished() that answered true and with no post_exe_step after it, and it
\* has been invoked once as soon as control has passed line 115; a run with
\* zero outer steps does so too, and only a collaborator's call ends a run
\* with an error.
C4_PostUpperOnce ==
    /\ Count(POSTUPPER) <= 1
    /\ \A i \in 1..Len(trace) :
          trace[i].op = POSTUPPER =>
              /\ i > 1
              /\ trace[i - 1] = FinishedTrue
              /\ \A j \in (i + 1)..Len(trace) : trace[j].op # POST
    /\ (\E i \in 1..Len(trace) : trace[i] = FinishedTrue) /\ pc # "post_upper" =>
          Count(POSTUPPER) = 1
    /\ LoopExited => Count(POSTUPPER) = 1 /\ trace[Len(trace)].ret # Raised
    /\ pc = "aborted" <=> raised # "none"
    /\ raised # "none" => Len(trace) >= 1 /\ trace[Len(trace)].ret = Raised

C4_Witness ==
    /\ pc = "done"
    /\ raised = "none"
    /\ Count(GEN) = 0
    /\ Count(POSTUPPER) = 1
    /\ start_time = end_time

\* C5: once the loop has been left, the numbers of decision requests and of
\* result deliveries both equal get_trade_len() as read after the reset.
C5_TradeLenSteps ==
    LoopExited =>
        /\ bar_total = trade_len
        /\ Count(GEN) = bar_total
        /\ Count(POST) = bar_total
        /\ bar_n = bar_total

C5_Witness ==
    /\ pc = "done"
    /\ bar_total = MaxLen
    /\ Count(GEN) = MaxLen


\* C6: the first decision request receives None; every later one receives
\* the result the previous step's collect_data sequence returned; every
\* post_exe_step receives its own step's result; and a returned result, None
\* included, is delivered to post_exe_step as the very next call.
C6_ResultFlow ==
    LET s == Restrict({GEN, RET, POST}) IN
    /\ \A i \in 1..Len(s) :
          /\ s[i].op = GEN =>
                IF i = 1 THEN s[i].arg = None
                ELSE /\ s[i - 1].op = POST
                     /\ s[i - 2].op = RET
                     /\ s[i].arg = s[i - 2].ret
          /\ s[i].op = POST => i > 1 /\ s[i - 1].op = RET /\ s[i].arg = s[i - 1].ret
          /\ s[i].op = RET /\ s[i].ret # Raised /\ i < Len(s) => s[i + 1].op = POST
    /\ Len(s) >= 1 /\ s[Len(s)].op = RET /\ s[Len(s)].ret # Raised => pc = "post_exe_step"

C6_Witness ==
    /\ pc = "done"
    /\ \E i, j \in 1..Len(trace) :
          /\ i < j
          /\ trace[i].op = GEN /\ trace[i].arg = Result(1)
          /\ trace[j] = Ev(POST, None, None)

\* C7: what the loop has yielded to its driver is, value for value and in
\* order, what the collect_data sequences have yielded; the loop is suspended
\* once per value yielded and nowhere else, so a run without intermediate
\* decisions completes within the driver's first resume.
C7_YieldsForwarded ==
    /\ loopYielded = execYielded
    /\ pc = "suspended" =>
          /\ resumes = Len(execYielded)
          /\ Count(COLLECT) = Count(RET) + 1
    /\ pc \notin {"created", "suspended"} => resumes = Len(execYielded) + 1
    /\ Completed /\ execYielded = <<>> => resumes = 1

C7_Witness ==
    /\ pc = "done"
    /\ Len(loopYielded) = MaxYield
    /\ resumes = MaxYield + 1
    /\ Count(COLLECT) = 2

\* C8: what the collect_data sequence receives at a resume is what the driver
\* supplied (nothing for nothing), and no generate_trade_decision or
\* post_exe_step call ever receives anything but None or an ExecutionResult.
C8_InjectionDelivered ==
    /\ lastRecv = lastSent
    /\ \A i \in 1..Len(trace) :
          trace[i].op \in {GEN, POST} => trace[i].arg.kind \in {"None", "result"}
    /\ execute_result.kind \in {"None", "result"}

C8_Witness ==
    /\ pc = "done"
    /\ lastSent = Injected
    /\ lastRecv = Injected
    /\ Count(POST) = 2

\* C9: the aggregation calls are made only when a capture slot was supplied,
\* get_all_executors at most once and each node at most once, and only after
\* finished() answered true and post_upper_level_exe_step was invoked.
C9_AggregationGuard ==
    LET fin == {j \in 1..Len(trace) : trace[j] = FinishedTrue}
        hook == {k \in 1..Len(trace) : trace[k] = Ev(POSTUPPER, None, None)}
        aggCalls == {i \in 1..Len(trace) : trace[i].op \in AggOps}
    IN  /\ Count(GETALL) <= 1
        /\ aggCalls # {} => return_value.given
        /\ \A i \in aggCalls : \E j \in fin, k \in hook : j < k /\ k < i
        /\ \A n \in 1..Len(all_executors) :
              Cardinality({i \in aggCalls : trace[i] = Ev("executor.time_per_step", NodeRef(n), None)}) <= 1

C9_Witness ==
    /\ pc = "done"
    /\ return_value.given
    /\ Count(GETALL) = 1
    /\ Count("executor.time_per_step") = MaxNodes
    /\ Count(POST) >= 1

\* The maps a completed, capturing run has stored in the slot.
Captured == Completed /\ return_value.given
StoredPortfolio == return_value.d["portfolio_dict"]
StoredIndicator == return_value.d["indicator_dict"]
NodeIds == 1..Len(all_executors)
Disabled(i) == ~all_executors[i].port_metr_enabled

\* C10 as stated: the indicator map's keys are the nodes' keys, and the key
\* of every node with disabled portfolio metrics is in the indicator map and
\* not in the portfolio map.
C10_AsStated ==
    Captured =>
        /\ DOMAIN StoredIndicator = {KeyOf(all_executors[i]) : i \in NodeIds}
        /\ \A i \in NodeIds :
              Disabled(i) =>
                  /\ KeyOf(all_executors[i]) \in DOMAIN StoredIndicator
                  /\ KeyOf(all_executors[i]) \notin DOMAIN StoredPortfolio

\* C10 as amended: the indicator map's keys are the nodes' keys; the key of
\* a node with disabled portfolio metrics is in the indicator map, and is in
\* the portfolio map only if another node with the same key has them
\* enabled; get_portfolio_metrics is called only on a node that has just
\* answered is_port_metr_enabled with true.
C10_DisabledNodes ==
    /\ Captured =>
          /\ DOMAIN StoredIndicator = {KeyOf(all_executors[i]) : i \in NodeIds}
          /\ \A i \in NodeIds :
                Disabled(i) =>
                    /\ KeyOf(all_executors[i]) \in DOMAIN StoredIndicator
                    /\ KeyOf(all_executors[i]) \in DOMAIN StoredPortfolio =>
                          \E m \in NodeIds \ {i} :
                              /\ KeyOf(all_executors[m]) = KeyOf(all_executors[i])
                              /\ ~Disabled(m)
    /\ \A i \in 1..Len(trace) :
          trace[i].op = "trade_account.get_portfolio_metrics" =>
              trace[i - 1] = Ev("trade_account.is_port_metr_enabled", trace[i].arg, Bool(TRUE))

C10_Witness ==
    /\ Captured
    /\ Len(all_executors) = 2
    /\ Disabled(1) /\ ~Disabled(2)
    /\ KeyOf(all_executors[1]) # KeyOf(all_executors[2])
    /\ DOMAIN StoredPortfolio = {KeyOf(all_executors[2])}
    /\ DOMAIN StoredIndicator = {KeyOf(all_executors[1]), KeyOf(all_executors[2])}

\* The keys nodes may resolve to, the nodes of the visited list that resolve
\* to key k, those of them with portfolio metrics enabled, and the last of a
\* set of nodes in get_all_executors order.
Keys == {KeyOf(n) : n \in Nodes}
WithKey(k) == {i \in NodeIds : KeyOf(all_executors[i]) = k}
EnabledWithKey(k) == {i \in WithKey(k) : ~Disabled(i)}
Last(S) == CHOOSE m \in S : \A x \in S : x <= m
Collision(k) == Cardinality(WithKey(k)) >= 2

\* C11 as stated: under a key that two or more nodes resolve to, the entry
\* stored in the indicator map and the entry stored in the portfolio map are
\* both the one of the last node visited with that key.
C11_AsStated ==
    Captured =>
        \A k \in Keys :
            Collision(k) =>
                /\ StoredIndicator[k].node = Last(WithKey(k))
                /\ k \in DOMAIN StoredPortfolio => StoredPortfolio[k].node = Last(WithKey(k))

\* C11 as amended: under a key that two or more nodes resolve to, the
\* indicator map holds the entry of the last node visited with that key, and
\* the portfolio map holds the entry of the last node visited with that key
\* that has portfolio metrics enabled (none if no such node has them
\* enabled); entries written earlier under the key are overwritten.
C11_LastWriteWins ==
    Captured =>
        \A k \in Keys :
            Collision(k) =>
                /\ StoredIndicator[k] = IndicatorEntry(Last(WithKey(k)))
                /\ IF EnabledWithKey(k) = {}
                   THEN k \notin DOMAIN StoredPortfolio
                   ELSE /\ k \in DOMAIN StoredPortfolio
                        /\ StoredPortfolio[k] = PortfolioEntry(Last(EnabledWithKey(k)))

C11_Witness ==
    /\ Captured
    /\ Len(all_executors) = 2
    /\ KeyOf(all_executors[1]) = KeyOf(all_executors[2])
    /\ ~Disabled(1) /\ ~Disabled(2)
    /\ StoredPortfolio[KeyOf(all_executors[1])].node = 2
    /\ StoredIndicator[KeyOf(all_executors[1])].node = 2

\* The aggregation has run over a node list with a key collision.
Collided == pc \in {"store", "done", "returned"} /\ return_value.given /\ \E k \in Keys : Collision(k)

\* C12 as stated: a key collision during aggregation is not fatal (no error
\* is raised, the result is stored) and a warning is surfaced to the caller.
C12_AsStated ==
    Collided =>
        /\ raised = "none"
        /\ pc = "store" => ENABLED StoreResult
        /\ warnings # <<>>

\* C12 as amended: a key collision during aggregation is not fatal (no error
\* is raised, the run goes on to store the aggregated result, and the stored
\* result holds the two maps built) and nothing is surfaced to the caller:
\* no warning is issued.
C12_SilentCollision ==
    Collided =>
        /\ raised = "none"
        /\ pc = "store" => ENABLED StoreResult
        /\ Completed => StoredPortfolio = portfolio_dict /\ StoredIndicator = indicator_dict
        /\ warnings = <<>>

C12_Witness ==
    /\ Collided
    /\ Completed
    /\ Len(all_executors) = 2
    /\ DOMAIN StoredIndicator = {KeyOf(all_executors[2])}
    /\ warnings = <<>>

\* The steps the loop takes by itself, as opposed to the steps of its driver
\* (Start, Resume, BacktestLoopReturn).
LoopStep ==
    \/ ExecutorReset
    \/ StrategyReset
    \/ OpenBar
    \/ LoopTest
    \/ GenerateTradeDecision
    \/ CollectData
    \/ ExecutorYield
    \/ ExecutorReturn
    \/ PostExeStep
    \/ PostUpperLevelExeStep
    \/ SkipAggregation
    \/ Aggregate
    \/ StoreResult

\* What the caller's slot held when the run was started.
InitialDict == IF driver = "external" /\ return_value.given THEN UserDict ELSE EmptyDict
LastOp == trace[Len(trace)].op

C14_ErrorAborts ==
    LET bad == {i \in 1..Len(trace) : trace[i].ret = Raised} IN
        /\ bad # {} <=> pc = "aborted"
        /\ raised # "none" <=> pc = "aborted"
        /\ bad \subseteq {Len(trace)}
        /\ pc = "aborted" =>
              /\ ~ENABLED Next
              /\ Count(POSTUPPER) = (IF LastOp \in AggOps \cup {POSTUPPER} THEN 1 ELSE 0)
              /\ LastOp \notin AggOps => Count(GETALL) = 0 /\ all_executors = <<>>
              /\ return_value.d = InitialDict
              /\ ~bt_result.set

C14_Witness ==
    /\ pc = "aborted"
    /\ raised = "Error"
    /\ LastOp = POST
    /\ trace[Len(trace)].ret = Raised
    /\ Count(GEN) = 2

\* The loop is suspended: its driver holds a value it has not answered yet.
Suspended == resumes > 0 /\ Len(loopYielded) = resumes

\* C15: while the loop is suspended and its driver does not resume it, no
\* step of the loop is possible: the last call made is the collect_data
\* submission (or its still running sequence), post_exe_step has not been
\* called for that step, post_upper_level_exe_step and the aggregation calls
\* have not been made, and the cursor, the slot and the results bound so far
\* stay as they are.
C15_HaltsWhenNotResumed ==
    Suspended =>
        /\ ~ENABLED LoopStep
        /\ LastOp = COLLECT
        /\ Count(POST) + 1 = Count(COLLECT)
        /\ trade_step = Count(POST)
        /\ Count(POSTUPPER) = 0
        /\ Count(GETALL) = 0 /\ all_executors = <<>>
        /\ raised = "none"
        /\ return_value.d = InitialDict

C15_Witness ==
    /\ Suspended
    /\ pc = "suspended"
    /\ Count(COLLECT) = 2
    /\ Count(POST) = 1
    /\ trade_step = 1

\* The loop has been left: the post-level hook is about to be or has been called.
Exited == pc = "post_upper" \/ Count(POSTUPPER) > 0

\* C16: with a driver that always resumes and collect_data sequences that
\* complete, every run in which no call raises reaches its end, finished()
\* having answered true and post_upper_level_exe_step having been invoked
\* once; and at any time the loop has been left if and only if finished()
\* has answered true.
C16_Terminates ==
    /\ <>(raised # "none" \/ (Completed /\ Count(POSTUPPER) = 1 /\ \E i \in 1..Len(trace) : trace[i] = FinishedTrue))
    /\ [](Exited <=> \E i \in 1..Len(trace) : trace[i] = FinishedTrue)

C16_Witness ==
    /\ Completed
    /\ raised = "none"
    /\ Count(POSTUPPER) = 1
    /\ Count(FIN) = 3
    /\ Restrict({FIN, POSTUPPER}) = <<FinishedFalse, FinishedFalse, FinishedTrue, Ev(POSTUPPER, None, None)>>

\* C17: the two-level run ("1day" over "30min", two days, two inner steps a
\* day) with capture requested makes exactly 2 decision requests, exposes
\* exactly 4 inner sub-decisions (two for each outer step, in order), and
\* stores a result whose keys are exactly "1day" and "30min".
C17_TwoLevel ==
    (scenario = "two_level" /\ Captured) =>
        /\ Count(GEN) = 2
        /\ loopYielded = <<SubDecision(1, 1), SubDecision(1, 2), SubDecision(2, 1), SubDecision(2, 2)>>
        /\ DOMAIN StoredIndicator = {"1day", "30min"}
        /\ DOMAIN StoredPortfolio \subseteq {"1day", "30min"}

C17_Witness ==
    /\ scenario = "two_level"
    /\ Captured
    /\ Count(GEN) = 2
    /\ Len(loopYielded) = 4
    /\ DOMAIN StoredIndicator = {"1day", "30min"}
    /\ DOMAIN StoredPortfolio = {"1day", "30min"}

\* C18: backtest_loop always supplies a slot, answers every suspension with
\* nothing (as an external driver that never injects does) and keeps none of
\* the yielded decisions, can always resume a suspended loop, and returns
\* only after the loop has completed, exactly the pair of maps stored in
\* the slot.
C18_UnattendedDriver ==
    driver = "backtest_loop" =>
        /\ return_value.given
        /\ lastSent = None /\ lastRecv = None
        /\ pc = "suspended" => ENABLED Resume
        /\ pc = "done" => ENABLED BacktestLoopReturn
        /\ bt_result.set <=> pc = "returned"
        /\ pc = "returned" =>
              /\ bt_result.portfolio_dict = [some |-> TRUE, v |-> StoredPortfolio]
              /\ bt_result.indicator_dict = [some |-> TRUE, v |-> StoredIndicator]
              /\ StoredPortfolio = portfolio_dict
              /\ StoredIndicator = indicator_dict

C18_Witness ==
    /\ driver = "backtest_loop"
    /\ pc = "returned"
    /\ Len(loopYielded) = 2
    /\ resumes = 3
    /\ bt_result.portfolio_dict.v = portfolio_dict
    /\ DOMAIN bt_result.portfolio_dict.v # {}
    /\ bt_result.indicator_dict.v = indicator_dict

\* C19: until the run has completed every step, and in every aborted or
\* suspended run, the slot holds what the caller passed in; the write is the
\* loop's last step; after it the slot holds the caller's entries unchanged
\* plus exactly "portfolio_dict" and "indicator_dict", set to the two maps
\* built.
C19_SlotWrittenLast ==
    /\ ~Completed => return_value.d = InitialDict
    /\ Completed => ~ENABLED LoopStep
    /\ (Completed /\ ~return_value.given) => return_value.d = InitialDict
    /\ (Completed /\ return_value.given) =>
          /\ DOMAIN return_value.d = DOMAIN InitialDict \cup {"portfolio_dict", "indicator_dict"}
          /\ \A k \in DOMAIN InitialDict : return_value.d[k] = InitialDict[k]
          /\ StoredPortfolio = portfolio_dict
          /\ StoredIndicator = indicator_dict

C19_Witness ==
    /\ pc = "done"
    /\ driver = "external"
    /\ DOMAIN return_value.d = {"user_entry", "portfolio_dict", "indicator_dict"}
    /\ return_value.d["user_entry"] = UserDict["user_entry"]

\* C20: in a captured result every key of the portfolio map is a key of the
\* indicator map; a key is in the portfolio map exactly when some visited
\* node with that key has portfolio metrics enabled; and where the last
\* visited node of a colliding key has them disabled, the portfolio entry
\* under the key is of an earlier node than the indicator entry under it.
C20_PortfolioKeys ==
    Captured =>
        /\ DOMAIN StoredPortfolio \subseteq DOMAIN StoredIndicator
        /\ \A k \in Keys : k \in DOMAIN StoredPortfolio <=> EnabledWithKey(k) # {}
        /\ \A k \in DOMAIN StoredPortfolio :
              Disabled(Last(WithKey(k))) => StoredPortfolio[k].node < StoredIndicator[k].node

C20_Witness ==
    /\ Captured
    /\ Len(all_executors) = 2
    /\ KeyOf(all_executors[1]) = KeyOf(all_executors[2])
    /\ ~Disabled(1) /\ Disabled(2)
    /\ StoredPortfolio[KeyOf(all_executors[2])].node = 1
    /\ StoredIndicator[KeyOf(all_executors[2])].node = 2

====
